---- MODULE Spec2Model ----
(***************************************************************************)
(* Retry / signing pipeline of the PayKaduna gateway.                      *)
(*                                                                         *)
(* retryWithBackoff (src/src/utils/retry.ts) is modelled as one state      *)
(* machine per invocation.  The suspension points of the async function    *)
(* are the states: "attempting" (await requestFn()), "waiting"             *)
(* (await sleep(delay)); "done" is the return, "failed" the throw.  The    *)
(* catch block runs without suspension, so it is one step.                 *)
(*                                                                         *)
(* signRequest (src/src/middleware/signRequest.ts) is a function of a      *)
(* request config and a key; strings are sequences of tokens, JSON.parse   *)
(* and JSON.stringify work on them.  PayKadunaService.request sends every  *)
(* attempt through the signing interceptor.  handleWebhook                 *)
(* (controllers/webhook.controller.ts) is modelled with the body parser    *)
(* in front of it and its two awaits as states.                            *)
(***************************************************************************)
EXTENDS Integers, Sequences, FiniteSets, TLC

\* ---------------------------------------------------------------- bounds
\* largest maxRetries argument explored for a single invocation
MaxRetriesBound == 6

\* ------------------------------------------------------ program constants
\* default value of the maxRetries parameter
DefaultMaxRetries == 3
\* first backoff delay, ms
BaseDelayMs == 1000
\* cap of the backoff delay, ms
MaxDelayMs == 10000

\* ------------------------------------------------------------ input sets
\* status of an error that carries no response (error.response undefined)
NoResponse == 0
Bodies == {"upstream-body"}
Invocations == {1, 2}

\* What one call of requestFn can reject with: an AxiosError with a
\* response, an AxiosError without one (network error, timeout), or an
\* Error that is not an AxiosError (the signer's missing-key error thrown
\* from the request interceptor). The statuses of the responses are 302,
\* 400, 499, 500 and 503.
Failures ==
    {[kind |-> "axios", status |-> s, body |-> b] :
        s \in {302, 400, 499, 500, 503}, b \in Bodies}
    \cup {[kind |-> "axios", status |-> NoResponse, body |-> "none"]}
    \cup {[kind |-> "error", status |-> NoResponse,
           body |-> "API key is required for HMAC signature generation"]}

\* What one call of requestFn resolves with is an AxiosResponse:
\* [kind |-> "response", status |-> 200, body |-> data, id |-> n]; id is the
\* identity of the object, the number of the call that produced it.


VARIABLES
    inv,        \* per invocation: the locals and the observable effects
    attempt,    \* per invocation: the loop variable `attempt`
    callers,    \* the invocations that exist in this run
    conf,       \* the process configuration (config.payKaduna)
    out,        \* per invocation: the request config and the requests sent
    sg,         \* two request configs and the signRequest calls made on them
    wh,         \* one inbound webhook request and its handling
    boot,       \* the process environment and the outcome of startup
    eh,         \* the errors passed to errorHandler and the responses sent
    bulk,       \* one POST /v1/bills/bulk request and its handling
    db          \* the bill store and the upsertBill calls on it

vars == <<inv, attempt, callers, conf, out, sg, wh, boot, eh, bulk, db>>

\* ------------------------------------------------------- pure functions
Pow2(n) == 2 ^ n


\* isRetryableError that retries whatever is not a 4xx
isRetryableErrorNot4xx(error) ==
    IF error.status = NoResponse
    THEN TRUE
    ELSE IF error.status >= 400 /\ error.status < 500
         THEN FALSE
         ELSE TRUE

\* isRetryableError with the 4xx test written with a strict lower bound and
\* the final test loosened to match: a 400 counts as retryable
isRetryableErrorFrom401(error) ==
    IF error.status = NoResponse
    THEN TRUE
    ELSE IF error.status > 400 /\ error.status < 500
         THEN FALSE
         ELSE error.status >= 400

\* isRetryableError(error): only called on AxiosErrors
isRetryableError(error) ==
    IF error.status = NoResponse
    THEN TRUE
    ELSE IF error.status >= 400 /\ error.status < 500
         THEN FALSE
         ELSE error.status >= 500

\* error instanceof AxiosError
IsAxiosError(error) == error.kind = "axios"

\* calculateDelay without the Math.min cap
calculateDelayNoCap(n) == BaseDelayMs * Pow2(n)

\* calculateDelay(attempt)
calculateDelay(n) ==
    IF BaseDelayMs * Pow2(n) <= MaxDelayMs THEN BaseDelayMs * Pow2(n) ELSE MaxDelayMs

\* the loop condition  attempt <= maxRetries
LoopCond(a, maxRetries) == a <= maxRetries

\* the last-attempt test compared against the number of tries
IsLastAttemptOffByOne(a, maxRetries) == a = maxRetries + 1

\* the last-attempt test left out
IsLastAttemptMissing(a, maxRetries) == FALSE

\* the test  attempt === maxRetries  in the catch block
IsLastAttempt(a, maxRetries) == a = maxRetries

\* throw new Error(error.message): a fresh object without the response
ThrownWrapped(error) ==
    [kind |-> "error", status |-> NoResponse, body |-> "none", id |-> 0]

\* the value a `throw error` statement rejects the promise with
Thrown(error) == error

\* the value `return response` resolves the promise with
Returned(response) == response

\* `attempt` declared at module level: one counter for all invocations
SlotShared(i) == 1

\* the frame that holds the locals of invocation i
Slot(i) == i


\* ---------------------------------------------------------------- strings
\* A string is a sequence of tokens; a token is a piece of text no function
\* of the program looks into.  The empty string is <<>>.
EmptyStr == <<>>

\* JSON white space between tokens
WS == " "

IsNotWs(t) == t # WS

StripWs(s) == SelectSeq(s, IsNotWs)

\* JSON string literals, number literals and keyword literals
StringToks ==
    {"'event'", "'data'", "'message'", "'billReference'", "'invoiceNo'",
     "'amount'", "'identifier'", "'charge.success'", "'ok'", "'B1'", "'INV1'",
     "'T1'", "''"}
NumberToks == {"1", "0", "10000.00", "10000"}
LiteralToks == {"null", "true", "false"}

\* the shortest form of a number, as JSON.stringify writes it
NumCanon(t) == IF t = "10000.00" THEN "10000" ELSE t

\* ------------------------------------------------------------ JSON values
Scalar(ty, tok) == [t |-> ty, tok |-> tok, kv |-> <<>>, el |-> <<>>]
Obj(kv) == [t |-> "object", tok |-> "", kv |-> kv, el |-> <<>>]
Arr(el) == [t |-> "array", tok |-> "", kv |-> <<>>, el |-> el]
UndefinedValue == Scalar("undefined", "")

ParseFail == [ok |-> FALSE, v |-> UndefinedValue, next |-> 0]

\* obj[k] = v on an object under construction: a repeated key keeps its
\* place and takes the later value
PutMember(kv, k, v) ==
    IF \E i \in 1..Len(kv) : kv[i].k = k
    THEN [i \in 1..Len(kv) |-> IF kv[i].k = k THEN [k |-> k, v |-> v] ELSE kv[i]]
    ELSE Append(kv, [k |-> k, v |-> v])

\* JSON.parse on the tokens t without white space, from position p
RECURSIVE ParseValue(_, _), ParseMembers(_, _, _), ParseElements(_, _, _)
ParseValue(t, p) ==
    IF p > Len(t) THEN ParseFail
    ELSE IF t[p] \in StringToks
         THEN [ok |-> TRUE, v |-> Scalar("string", t[p]), next |-> p + 1]
    ELSE IF t[p] \in NumberToks
         THEN [ok |-> TRUE, v |-> Scalar("number", NumCanon(t[p])), next |-> p + 1]
    ELSE IF t[p] \in LiteralToks
         THEN [ok |-> TRUE, v |-> Scalar("literal", t[p]), next |-> p + 1]
    ELSE IF t[p] = "{"
         THEN IF p + 1 <= Len(t) /\ t[p + 1] = "}"
              THEN [ok |-> TRUE, v |-> Obj(<<>>), next |-> p + 2]
              ELSE ParseMembers(t, p + 1, <<>>)
    ELSE IF t[p] = "["
         THEN IF p + 1 <= Len(t) /\ t[p + 1] = "]"
              THEN [ok |-> TRUE, v |-> Arr(<<>>), next |-> p + 2]
              ELSE ParseElements(t, p + 1, <<>>)
    ELSE ParseFail

ParseMembers(t, p, acc) ==
    IF p + 1 > Len(t) \/ t[p] \notin StringToks \/ t[p + 1] # ":"
    THEN ParseFail
    ELSE LET r == ParseValue(t, p + 2) IN
         IF ~r.ok \/ r.next > Len(t) THEN ParseFail
         ELSE IF t[r.next] = "}"
              THEN [ok |-> TRUE, v |-> Obj(PutMember(acc, t[p], r.v)),
                    next |-> r.next + 1]
         ELSE IF t[r.next] = ","
              THEN ParseMembers(t, r.next + 1, PutMember(acc, t[p], r.v))
         ELSE ParseFail

ParseElements(t, p, acc) ==
    LET r == ParseValue(t, p) IN
    IF ~r.ok \/ r.next > Len(t) THEN ParseFail
    ELSE IF t[r.next] = "]"
         THEN [ok |-> TRUE, v |-> Arr(Append(acc, r.v)), next |-> r.next + 1]
    ELSE IF t[r.next] = ","
         THEN ParseElements(t, r.next + 1, Append(acc, r.v))
    ELSE ParseFail

\* JSON.parse(s): ok is FALSE where JSON.parse throws
JsonParse(s) ==
    LET t == StripWs(s)
        r == ParseValue(t, 1)
    IN IF r.ok /\ r.next = Len(t) + 1
       THEN [ok |-> TRUE, v |-> r.v]
       ELSE [ok |-> FALSE, v |-> UndefinedValue]

\* JSON.stringify(v) without indentation
RECURSIVE JsonStringify(_), StringifyMembers(_), StringifyElements(_)
JsonStringify(v) ==
    IF v.t = "object" THEN <<"{">> \o StringifyMembers(v.kv) \o <<"}">>
    ELSE IF v.t = "array" THEN <<"[">> \o StringifyElements(v.el) \o <<"]">>
    ELSE <<v.tok>>

StringifyMembers(kv) ==
    IF kv = <<>> THEN <<>>
    ELSE <<kv[1].k, ":">> \o JsonStringify(kv[1].v)
         \o (IF Len(kv) > 1 THEN <<",">> \o StringifyMembers(Tail(kv)) ELSE <<>>)

StringifyElements(el) ==
    IF el = <<>> THEN <<>>
    ELSE JsonStringify(el[1])
         \o (IF Len(el) > 1 THEN <<",">> \o StringifyElements(Tail(el)) ELSE <<>>)

\* obj[k], UndefinedValue when obj has no such member
Member(v, k) ==
    IF v.t = "object" /\ \E i \in 1..Len(v.kv) : v.kv[i].k = k
    THEN v.kv[CHOOSE i \in 1..Len(v.kv) : v.kv[i].k = k].v
    ELSE UndefinedValue

\* ---------------------------------------------------------- URL encoding
\* application/x-www-form-urlencoded serialisation of one token
UrlEncodeTok(t) ==
    CASE t = " " -> "+"
      [] t = "&" -> "%26"
      [] t = "=" -> "%3D"
      [] OTHER -> t

UrlEncode(s) == [i \in 1..Len(s) |-> UrlEncodeTok(s[i])]

\* new URLSearchParams(params).toString()
RECURSIVE QueryString(_)
QueryString(kv) ==
    IF kv = <<>> THEN <<>>
    ELSE UrlEncode(kv[1].k) \o <<"=">> \o UrlEncode(kv[1].v)
         \o (IF Len(kv) > 1 THEN <<"&">> \o QueryString(Tail(kv)) ELSE <<>>)

\* ---------------------------------------------------------------- HMAC
\* A keyed digest in its text encoding.  The digest is taken as
\* collision-free: two of them are equal exactly when algorithm, encoding,
\* key and message are.  A base64 SHA-256 digest has 44 characters, a hex
\* SHA-512 digest 128, so digests of different schemes are never equal.
Digest(alg, enc, key, msg) == [alg |-> alg, enc |-> enc, key |-> key, msg |-> msg]

\* a header value that is plain text, not a digest
Text(s) == Digest("none", "text", EmptyStr, s)

\* a header that is not set
NoValue == Digest("none", "undefined", EmptyStr, EmptyStr)

\* generateHmacSignature(payload, secret)
generateHmacSignature(payload, secret) == Digest("sha256", "base64", secret, payload)

\* ------------------------------------------------------------ signRequest
HeaderNames == {"Content-Type", "X-Api-Signature"}
NoHeaders == [n \in HeaderNames |-> NoValue]

\* config.method?.toLowerCase()
ToLowerCase(m) ==
    CASE m = "GET" -> "get"
      [] m = "POST" -> "post"
      [] m = "PUT" -> "put"
      [] m = "PATCH" -> "patch"
      [] m = "DELETE" -> "delete"
      [] OTHER -> m

\* the truth value of config.data in  if (config.data)
Truthy(data) ==
    \/ data.t = "object"
    \/ data.t = "string" /\ data.s # EmptyStr
    \/ data.t = "number" /\ data.s # <<"0">>

\* the payload for a GET request: path + query string
GetPayload(config) ==
    config.url \o (IF config.params.present
                   THEN <<"?">> \o QueryString(config.params.kv)
                   ELSE <<>>)

\* a string body signed as it is, without the parse and re-stringify
BodyPayloadAsIs(data) ==
    IF Truthy(data)
    THEN IF data.t = "object" THEN JsonStringify(data.v) ELSE data.s
    ELSE EmptyStr

\* the payload for a POST/PUT/PATCH request: the minified JSON body
BodyPayload(data) ==
    IF Truthy(data)
    THEN IF data.t = "string"
         THEN IF JsonParse(data.s).ok
              THEN JsonStringify(JsonParse(data.s).v)
              ELSE data.s
         ELSE IF data.t = "object"
              THEN JsonStringify(data.v)
              ELSE data.s
    ELSE EmptyStr

\* the payload with the signature header of an earlier call mixed in
PayloadChained(config) ==
    LET method == IF config.method = "" THEN "get" ELSE ToLowerCase(config.method)
        base == IF method = "get" THEN GetPayload(config)
                ELSE IF method \in {"post", "put", "patch"}
                     THEN BodyPayload(config.data)
                     ELSE EmptyStr
    IN IF config.headers.present
          /\ config.headers.h["X-Api-Signature"] # NoValue
       THEN base \o <<"|">> \o config.headers.h["X-Api-Signature"].msg
       ELSE base

\* the string signRequest signs
Payload(config) ==
    LET method == IF config.method = "" THEN "get" ELSE ToLowerCase(config.method)
    IN IF method = "get"
       THEN GetPayload(config)
       ELSE IF method \in {"post", "put", "patch"}
            THEN BodyPayload(config.data)
            ELSE EmptyStr

\* config.headers = config.headers || {}; config.headers[name] = value
SetHeader(headers, name, value) ==
    [present |-> TRUE,
     h |-> [(IF headers.present THEN headers.h ELSE NoHeaders) EXCEPT ![name] = value]]

\* signRequest that signs with whatever key it is given, the empty one too
signRequestNoKeyCheck(config, apiKey) ==
    [threw |-> FALSE,
     config |-> [config EXCEPT !.headers =
                    SetHeader(@, "X-Api-Signature",
                              generateHmacSignature(Payload(config), apiKey))]]

\* signRequest that also stores the minified payload as the body to send
signRequestRewritesData(config, apiKey) ==
    IF apiKey = EmptyStr
    THEN [threw |-> TRUE, config |-> config]
    ELSE [threw |-> FALSE,
          config |-> [config EXCEPT
                        !.headers = SetHeader(@, "X-Api-Signature",
                              generateHmacSignature(Payload(config), apiKey)),
                        !.data = IF @.t = "string"
                                 THEN [@ EXCEPT !.s = Payload(config)]
                                 ELSE @]]

\* signRequest(config, apiKey): threw is TRUE where it throws; config is the
\* config object after the call
signRequest(config, apiKey) ==
    IF apiKey = EmptyStr
    THEN [threw |-> TRUE, config |-> config]
    ELSE [threw |-> FALSE,
          config |-> [config EXCEPT !.headers =
                         SetHeader(@, "X-Api-Signature",
                                   generateHmacSignature(Payload(config), apiKey))]]

\* ------------------------------------------------- inputs of signRequest
\* largest number of signRequest calls made on one config object
MaxSignCalls == 2

K1 == <<"api-key-1">>
K2 == <<"api-key-2">>
W1 == <<"webhook-secret-1">>

\* {"identifier":"T1","amount":1} as compact text, with white space, with
\* the members in the other order, and cut short
JsonCompact == <<"{", "'identifier'", ":", "'T1'", ",", "'amount'", ":", "1", "}">>
JsonSpaced ==
    <<"{", WS, "'identifier'", ":", WS, "'T1'", ",", WS, "'amount'", ":", WS, "1", WS, "}">>
JsonReordered == <<"{", "'amount'", ":", "1", ",", "'identifier'", ":", "'T1'", "}">>
JsonCut == <<"{", "'identifier'", ":">>
\* {"amount":10000.00}
JsonDecimal == <<"{", "'amount'", ":", "10000.00", "}">>

StringData(s) == [t |-> "string", s |-> s, v |-> UndefinedValue]
ObjectData(v) == [t |-> "object", s |-> EmptyStr, v |-> v]
NumberData(tok) == [t |-> "number", s |-> <<tok>>, v |-> UndefinedValue]
NoData == [t |-> "undefined", s |-> EmptyStr, v |-> UndefinedValue]

SignDatas ==
    {NoData, StringData(EmptyStr), StringData(JsonCompact), StringData(JsonSpaced),
     StringData(JsonReordered), StringData(JsonCut), StringData(JsonDecimal),
     ObjectData(JsonParse(JsonCompact).v), NumberData("1")}

NoParams == [present |-> FALSE, kv |-> <<>>]
ParamsOf(kv) == [present |-> TRUE, kv |-> kv]

JsonContentType == Text(<<"application/json">>)
StaleSignature == generateHmacSignature(<<"stale">>, K2)

SignHeaders ==
    {[present |-> FALSE, h |-> NoHeaders],
     [present |-> TRUE, h |-> [NoHeaders EXCEPT !["Content-Type"] = JsonContentType]],
     [present |-> TRUE, h |-> [NoHeaders EXCEPT !["Content-Type"] = JsonContentType,
                                                !["X-Api-Signature"] = StaleSignature]]}

\* the method "" is an absent method
SignConfigs ==
    [method : {"", "GET", "POST", "put", "PATCH", "DELETE"},
     url : {<<"/api/ESBills/GetBill">>},
     params : {NoParams, ParamsOf(<<>>),
               ParamsOf(<<[k |-> <<"criteria">>, v |-> <<"a", " ", "b">>]>>)},
     data : SignDatas, headers : SignHeaders]

\* the signature header of a config object
SignatureOf(config) ==
    IF config.headers.present THEN config.headers.h["X-Api-Signature"] ELSE NoValue

\* ----------------------------------------------------- invocation state
\* locals and effects of an invocation that has not been called yet;
\* lastError is declared without a value
NewInvocation(mr) ==
    [pc |-> "idle", maxRetries |-> mr, calls |-> 0, inflight |-> 0,
     timer |-> 0, sleeps |-> <<>>, hist |-> <<>>,
     lastError |-> [kind |-> "undefined", status |-> NoResponse, body |-> "none", id |-> 0],
     resolved |-> <<>>, rejected |-> <<>>, attempt |-> 0]

Load(i) == [inv[i] EXCEPT !.attempt = attempt[Slot(i)]]

Store(i, s) ==
    /\ inv' = [inv EXCEPT ![i] = [s EXCEPT !.attempt = 0]]
    /\ attempt' = [attempt EXCEPT ![Slot(i)] = s.attempt]

\* the rejection is signalled but control is not left: while budget remains
\* the loop goes on to the backoff
ThrowNoExit(s, error) ==
    IF s.attempt < s.maxRetries
    THEN [s EXCEPT !.pc = "waiting", !.rejected = Append(@, error),
                   !.sleeps = Append(@, BaseDelayMs), !.timer = BaseDelayMs]
    ELSE [s EXCEPT !.pc = "failed", !.rejected = Append(@, error)]

\* throw: the promise of the invocation rejects
Throw(s, error) ==
    [s EXCEPT !.pc = "failed", !.rejected = Append(@, Thrown(error))]

\* top of the for loop: test the condition, then  await requestFn()
LoopTop(s) ==
    IF LoopCond(s.attempt, s.maxRetries)
    THEN [s EXCEPT !.pc = "attempting", !.calls = @ + 1, !.inflight = @ + 1]
    ELSE Throw(s, s.lastError)

\* the response is kept but the loop is not left
OnSuccessNoReturn(s, response) ==
    LoopTop([s EXCEPT !.attempt = @ + 1])

\* return response
OnSuccess(s, response) ==
    [s EXCEPT !.pc = "done", !.resolved = Append(@, Returned(response))]

\* the invocation suspends on a promise that no timer resolves
SleepNoTimer(s, delay) ==
    [s EXCEPT !.pc = "waiting", !.sleeps = Append(@, delay), !.timer = 0]

\* sleep(delay) without await: the timer is set, the loop continues at once
SleepNotAwaited(s, delay) ==
    LoopTop([s EXCEPT !.sleeps = Append(@, delay), !.timer = delay,
                      !.attempt = @ + 1])

\* await sleep(delay): the timer is set and the invocation suspends
Sleep(s, delay) ==
    [s EXCEPT !.pc = "waiting", !.sleeps = Append(@, delay), !.timer = delay]

\* the catch block
OnFailure(s, error) ==
    LET s1 == [s EXCEPT !.lastError = error] IN
    IF IsAxiosError(error) /\ ~isRetryableError(error)
    THEN Throw(s1, error)
    ELSE IF IsLastAttempt(s1.attempt, s1.maxRetries)
         THEN Throw(s1, error)
         ELSE Sleep(s1, calculateDelay(s1.attempt))

\* the pending requestFn() promise settles with outcome o
Settled(s, o) == [s EXCEPT !.inflight = @ - 1, !.hist = Append(@, o)]

\* the sleep is over: attempt++ of the for statement, then the loop top
Resume(s) == LoopTop([s EXCEPT !.timer = 0, !.attempt = @ + 1])

\* ------------------------------------------- parts of the state not in use
\* a specification that does not exercise a part of the program keeps that
\* part at these values
IdleConfig ==
    [method |-> "", url |-> EmptyStr, params |-> NoParams, data |-> NoData,
     headers |-> [present |-> FALSE, h |-> NoHeaders]]
ConfIdle == [apiKey |-> K1, webhookSecretKey |-> W1]
OutIdle == [i \in Invocations |-> [cfg |-> IdleConfig, sent |-> <<>>, threw |-> FALSE]]
SgIdle ==
    [key |-> K1, orig |-> <<IdleConfig, IdleConfig>>, c |-> <<IdleConfig, IdleConfig>>,
     n |-> <<0, 0>>, threw |-> <<FALSE, FALSE>>, sigs |-> <<<<>>, <<>>>>]
WhIdle ==
    [pc |-> "none", raw |-> EmptyStr, header |-> NoValue, body |-> UndefinedValue,
     status |-> 0, message |-> "", event |-> "", data |-> UndefinedValue,
     getBill |-> <<>>, apiBillData |-> "undefined", db |-> <<>>, dbThrew |-> FALSE]

\* an environment variable: set is FALSE where the variable is absent
EnvVar(v) == [set |-> TRUE, v |-> v]
Unset == [set |-> FALSE, v |-> EmptyStr]

BootIdle == [status |-> "up", PK_API_KEY |-> EnvVar(K1), PK_WEBHOOK_SECRET_KEY |-> EnvVar(W1)]
EhIdle == <<>>
NoList == [set |-> FALSE, items |-> <<>>]
NoResult == [bill |-> FALSE, billItems |-> NoList, failedBillItems |-> NoList]
NoErrorBody == [code |-> "", message |-> "", details |-> "", statusCode |-> 0]
BulkIdle ==
    [pc |-> "none", body |-> UndefinedValue, upstream |-> NoResult, status |-> 0,
     result |-> NoResult, error |-> NoErrorBody, saves |-> 0, saveThrew |-> FALSE]
\* the calls of upsertBill for one bill reference
MaxCalls == 3
Calls == 1..MaxCalls
\* a call not made yet: its items, the number of calls that had completed
\* when it was made, the item rows its transaction has deleted and created
CallIdle == [pc |-> "idle", items |-> <<>>, after |-> 0, deleted |-> {}, created |-> {}]
\* the database with no row for the reference, no transaction open
DbIdle ==
    [lock |-> 0, bill |-> [exists |-> FALSE, by |-> 0], items |-> {},
     call |-> [c \in Calls |-> CallIdle], log |-> <<>>]

\* -------------------------------------------------------------- actions
\* retryWithBackoff(requestFn, maxRetries) is called: runs to the first await
Call(i) ==
    /\ i \in callers
    /\ inv[i].pc = "idle"
    /\ Store(i, LoopTop([Load(i) EXCEPT !.attempt = 0]))
    /\ UNCHANGED callers

\* the pending requestFn() promise resolves
Resolve(i) ==
    /\ inv[i].pc = "attempting"
    /\ inv[i].inflight > 0
    /\ \E d \in {"data"} :
         LET s == Load(i)
             response == [kind |-> "response", status |-> 200, body |-> d,
                          id |-> s.calls]
         IN Store(i, OnSuccess(Settled(s, response), response))
    /\ UNCHANGED callers

\* the pending requestFn() promise rejects with f
RejectWith(i, f) ==
    /\ inv[i].pc = "attempting"
    /\ inv[i].inflight > 0
    /\ LET s == Load(i)
           error == [kind |-> f.kind, status |-> f.status, body |-> f.body,
                     id |-> s.calls]
       IN Store(i, OnFailure(Settled(s, error), error))
    /\ UNCHANGED callers

\* the pending requestFn() promise rejects
Reject(i) == \E f \in Failures : RejectWith(i, f)

\* the setTimeout of sleep(delay) fires: attempt++ and back to the loop top
TimerFire(i) ==
    /\ inv[i].pc = "waiting"
    /\ inv[i].timer > 0
    /\ Store(i, Resume(Load(i)))
    /\ UNCHANGED callers

Next ==
    /\ \E i \in Invocations :
          \/ Call(i)
          \/ Resolve(i)
          \/ Reject(i)
          \/ TimerFire(i)
    /\ UNCHANGED <<conf, out, sg, wh, boot, eh, bulk, db>>

\* one invocation, any maxRetries in 0..MaxRetriesBound
Init ==
    /\ callers = {1}
    /\ \E mr \in 0..MaxRetriesBound :
         inv = [i \in Invocations |->
                  NewInvocation(IF i = 1 THEN mr ELSE DefaultMaxRetries)]
    /\ attempt = [i \in Invocations |-> 0]
    /\ conf = ConfIdle /\ out = OutIdle /\ sg = SgIdle /\ wh = WhIdle
    /\ boot = BootIdle /\ eh = EhIdle /\ bulk = BulkIdle /\ db = DbIdle

Spec == Init /\ [][Next]_vars

\* the steps the environment owes the invocation: every requestFn() promise
\* settles, every timer set by sleep fires
SettleStep(i) ==
    /\ Resolve(i) \/ Reject(i)
    /\ UNCHANGED <<conf, out, sg, wh, boot, eh, bulk, db>>

TimerStep(i) ==
    /\ TimerFire(i)
    /\ UNCHANGED <<conf, out, sg, wh, boot, eh, bulk, db>>


SpecLive ==
    /\ Init /\ [][Next]_vars
    /\ \A i \in Invocations : WF_vars(SettleStep(i)) /\ WF_vars(TimerStep(i))

\* two concurrent calls of PayKadunaService.request (default maxRetries)
InitPair ==
    /\ callers = Invocations
    /\ inv = [i \in Invocations |-> NewInvocation(DefaultMaxRetries)]
    /\ attempt = [i \in Invocations |-> 0]
    /\ conf = ConfIdle /\ out = OutIdle /\ sg = SgIdle /\ wh = WhIdle
    /\ boot = BootIdle /\ eh = EhIdle /\ bulk = BulkIdle /\ db = DbIdle

SpecPair == InitPair /\ [][Next]_vars

\* the last element of a sequence
Last(h) == h[Len(h)]

\* ------------------------------------------------------ PayKadunaService
\* the environments validateEnv accepts: PK_API_KEY is not empty,
\* PK_WEBHOOK_SECRET_KEY is any string
ValidConfs == [apiKey : {K1, K2}, webhookSecretKey : {EmptyStr, W1, K1}]

\* headers of the axios instance
DefaultHeaders ==
    [present |-> TRUE, h |-> [NoHeaders EXCEPT !["Content-Type"] = JsonContentType]]

\* axios merges the instance defaults and the request config into a new
\* config object for every request
MergeConfig(cfg) ==
    [cfg EXCEPT !.headers =
        IF cfg.headers.present
        THEN [present |-> TRUE,
              h |-> [n \in HeaderNames |->
                       IF cfg.headers.h[n] # NoValue THEN cfg.headers.h[n]
                       ELSE DefaultHeaders.h[n]]]
        ELSE DefaultHeaders]

\* the request interceptor of the axios instance
Interceptor(requestConfig, c) == signRequest(requestConfig, c.apiKey)

\* { ...requestBody, engineCode: requestBody.engineCode || engineCode }
WithEngineCode(requestBody) ==
    Obj(PutMember(requestBody.kv, "'engineCode'",
                  IF Member(requestBody, "'engineCode'") = UndefinedValue
                  THEN Scalar("string", "'ENG1'")
                  ELSE Member(requestBody, "'engineCode'")))

\* the request configs of createESBill, getBill and searchTaxPayer
CreateESBillConfig(requestBody) ==
    [method |-> "POST", url |-> <<"/api/ESBills/CreateESBill">>, params |-> NoParams,
     data |-> ObjectData(WithEngineCode(requestBody)),
     headers |-> [present |-> FALSE, h |-> NoHeaders]]

GetBillConfig(billReference) ==
    [method |-> "GET", url |-> <<"/api/ESBills/GetBill">>,
     params |-> ParamsOf(<<[k |-> <<"billreference">>, v |-> billReference]>>),
     data |-> NoData, headers |-> [present |-> FALSE, h |-> NoHeaders]]

SearchTaxPayerConfig(criteria) ==
    [method |-> "GET", url |-> <<"/api/ESBills/SearchTaxPayer">>,
     params |-> ParamsOf(<<[k |-> <<"criteria">>, v |-> criteria]>>),
     data |-> NoData, headers |-> [present |-> FALSE, h |-> NoHeaders]]

ServiceConfigs ==
    {CreateESBillConfig(JsonParse(JsonCompact).v), GetBillConfig(<<"B1">>),
     SearchTaxPayerConfig(<<"a", " ", "b">>)}

\* retries are sent through plain axios, past the interceptor of the instance
DispatchUnsignedRetry(i, cfg) ==
    IF inv'[i].calls > inv[i].calls
    THEN LET r == Interceptor(MergeConfig(cfg), conf) IN
         out' = [out EXCEPT ![i].cfg = cfg, ![i].threw = r.threw,
                            ![i].sent = IF r.threw THEN @
                                        ELSE IF @ = <<>> THEN Append(@, r.config)
                                        ELSE Append(@, MergeConfig(cfg))]
    ELSE out' = [out EXCEPT ![i].cfg = cfg]

\* requestFn: where the step has called it, this.axiosInstance.request(cfg)
\* runs the interceptor on the merged config and sends the result, or
\* rejects when the interceptor throws
Dispatch(i, cfg) ==
    IF inv'[i].calls > inv[i].calls
    THEN LET r == Interceptor(MergeConfig(cfg), conf) IN
         out' = [out EXCEPT ![i].cfg = cfg, ![i].threw = r.threw,
                            ![i].sent = IF r.threw THEN @ ELSE Append(@, r.config)]
    ELSE out' = [out EXCEPT ![i].cfg = cfg]

\* a service method builds its request config and calls this.request
ServiceRequest(i) == \E cfg \in ServiceConfigs : Call(i) /\ Dispatch(i, cfg)

\* the upstream answers the request sent
AttemptResolve(i) == ~out[i].threw /\ Resolve(i) /\ Dispatch(i, out[i].cfg)

\* the request fails: with the interceptor's error when it threw, with an
\* AxiosError when the request was sent
AttemptReject(i) ==
    \E f \in Failures :
        /\ (f.kind = "error") <=> out[i].threw
        /\ RejectWith(i, f)
        /\ Dispatch(i, out[i].cfg)

\* the backoff is over and the next attempt starts
BackoffOver(i) == TimerFire(i) /\ Dispatch(i, out[i].cfg)

NextSvc ==
    /\ \E i \in Invocations :
          \/ ServiceRequest(i)
          \/ AttemptResolve(i)
          \/ AttemptReject(i)
          \/ BackoffOver(i)
    /\ UNCHANGED <<conf, sg, wh, boot, eh, bulk, db>>

\* one service call under every valid configuration
InitSvc ==
    /\ callers = {1}
    /\ inv = [i \in Invocations |-> NewInvocation(DefaultMaxRetries)]
    /\ attempt = [i \in Invocations |-> 0]
    /\ conf \in ValidConfs
    /\ out = OutIdle /\ sg = SgIdle /\ wh = WhIdle
    /\ boot = BootIdle /\ eh = EhIdle /\ bulk = BulkIdle /\ db = DbIdle

SpecSvc == InitSvc /\ [][NextSvc]_vars

\* ----------------------------------------------------------- errorHandler
\* largest number of failing requests handled in one run
MaxErrors == 2

\* a || b || c on strings, "" being the falsy one
Or3(a, b, c) == IF a # "" THEN a ELSE IF b # "" THEN b ELSE c

\* errorHandler that hands the status of the upstream through
errorHandlerPassThrough(err) ==
    [code |-> "UPSTREAM_ERROR", message |-> "PayKaduna API error",
     details |-> Or3(err.upstream, err.message, "Upstream error"),
     statusCode |-> IF err.status = NoResponse THEN 500 ELSE err.status]

\* errorHandler(err, req, res, next): the error object of the response
errorHandler(err) ==
    IF err.kind = "zod"
    THEN [code |-> "VALIDATION_ERROR", message |-> "Request validation failed",
          details |-> err.message, statusCode |-> 400]
    ELSE IF err.kind = "axios"
    THEN LET statusCode == IF err.status = NoResponse THEN 500 ELSE err.status IN
         IF statusCode = 401
         THEN [code |-> "UPSTREAM_UNAUTHORIZED",
               message |-> "Invalid API Key or HMAC Signature",
               details |-> Or3(err.upstream, err.message, "Authentication failed"),
               statusCode |-> 401]
         ELSE IF statusCode = 400
         THEN [code |-> "UPSTREAM_BAD_REQUEST",
               message |-> "PayKaduna API rejected the request",
               details |-> Or3(err.upstream, err.message, "Invalid request"),
               statusCode |-> 400]
         ELSE IF statusCode = 404
         THEN [code |-> "UPSTREAM_NOT_FOUND", message |-> "Resource not found",
               details |-> Or3(err.upstream, err.message, "Bill or Taxpayer not found"),
               statusCode |-> 404]
         ELSE IF statusCode >= 500
         THEN [code |-> "UPSTREAM_SERVER_ERROR", message |-> "PayKaduna API server error",
               details |-> Or3(err.upstream, err.message, "Internal server error"),
               statusCode |-> 500]
         ELSE [code |-> "NETWORK_ERROR", message |-> "Network request failed",
               details |-> Or3(err.message, "Unable to connect to PayKaduna API", ""),
               statusCode |-> 500]
    ELSE [code |-> "INTERNAL_ERROR", message |-> "Internal server error",
          details |-> Or3(err.message, "An unexpected error occurred", ""),
          statusCode |-> 500]

\* what is passed to errorHandler: a ZodError, an AxiosError (status
\* NoResponse where err.response is undefined; upstream is
\* err.response.data.message, "" where there is none) or another Error.
\* A request fails with err: express passes it to errorHandler, which sends
\* res.status(error.statusCode).json({ error }).
HandleError ==
    /\ Len(eh) < MaxErrors
    /\ \E err \in
            {[kind |-> "zod", status |-> NoResponse, upstream |-> "", message |-> m] :
                m \in {"esBillDtos: Required"}}
            \cup {[kind |-> "axios", status |-> NoResponse, upstream |-> "", message |-> m] :
                    m \in {"", "timeout of 30000ms exceeded"}}
            \cup {[kind |-> "axios", status |-> st, upstream |-> u, message |-> m] :
                    st \in {302, 400, 401, 403, 404, 499, 500, 503},
                    u \in {"", "upstream message"},
                    m \in {"", "Request failed"}}
            \cup {[kind |-> "error", status |-> NoResponse, upstream |-> "", message |-> m] :
                    m \in {"", "API key is required for HMAC signature generation"}} :
         eh' = Append(eh, [err |-> err, sent |-> <<errorHandler(err)>>])

NextErr ==
    /\ HandleError
    /\ UNCHANGED <<inv, attempt, callers, conf, out, sg, wh, boot, bulk, db>>

InitErr ==
    /\ callers = {}
    /\ inv = [i \in Invocations |-> NewInvocation(DefaultMaxRetries)]
    /\ attempt = [i \in Invocations |-> 0]
    /\ conf = ConfIdle /\ out = OutIdle /\ sg = SgIdle /\ wh = WhIdle
    /\ boot = BootIdle /\ eh = EhIdle /\ bulk = BulkIdle /\ db = DbIdle

SpecErr == InitErr /\ [][NextErr]_vars

\* -------------------------------------------------------- webhook handler
\* {"event":"charge.success","data":{"billReference":"B1","amount":1},
\*  "message":"ok"} as compact text, with white space, with the members in
\* another order, and with the amount written 10000.00
WebhookCompact ==
    <<"{", "'event'", ":", "'charge.success'", ",", "'data'", ":", "{",
      "'billReference'", ":", "'B1'", ",", "'amount'", ":", "1", "}", ",",
      "'message'", ":", "'ok'", "}">>
WebhookSpaced ==
    <<"{", WS, "'event'", ":", WS, "'charge.success'", ",", WS, "'data'", ":", WS, "{",
      "'billReference'", ":", WS, "'B1'", ",", WS, "'amount'", ":", WS, "1", "}", ",",
      WS, "'message'", ":", WS, "'ok'", WS, "}">>
WebhookReordered ==
    <<"{", "'message'", ":", "'ok'", ",", "'data'", ":", "{",
      "'amount'", ":", "1", ",", "'billReference'", ":", "'B1'", "}", ",",
      "'event'", ":", "'charge.success'", "}">>
WebhookDecimal ==
    <<"{", "'event'", ":", "'charge.success'", ",", "'data'", ":", "{",
      "'billReference'", ":", "'B1'", ",", "'amount'", ":", "10000.00", "}", ",",
      "'message'", ":", "'ok'", "}">>

\* an event with the given members
WebhookText(event, data, message) ==
    <<"{">> \o event \o data \o message \o <<"}">>

EventOk == <<"'event'", ":", "'charge.success'", ",">>
MessageOk == <<"'message'", ":", "'ok'">>

\* bodies without a bill reference, and bodies that fail a structure check
WebhookNoRef ==
    WebhookText(EventOk, <<"'data'", ":", "{", "'invoiceNo'", ":", "'INV1'", "}", ",">>,
                MessageOk)
WebhookEmptyRef ==
    WebhookText(EventOk, <<"'data'", ":", "{", "'billReference'", ":", "''", "}", ",">>,
                MessageOk)
WebhookNoEvent ==
    WebhookText(<<>>, <<"'data'", ":", "{", "'billReference'", ":", "'B1'", "}", ",">>,
                MessageOk)
WebhookEventNumber ==
    WebhookText(<<"'event'", ":", "1", ",">>,
                <<"'data'", ":", "{", "'billReference'", ":", "'B1'", "}", ",">>, MessageOk)
WebhookEventEmpty ==
    WebhookText(<<"'event'", ":", "''", ",">>,
                <<"'data'", ":", "{", "'billReference'", ":", "'B1'", "}", ",">>, MessageOk)
WebhookDataArray ==
    WebhookText(EventOk, <<"'data'", ":", "[", "]", ",">>, MessageOk)
WebhookDataNull ==
    WebhookText(EventOk, <<"'data'", ":", "null", ",">>, MessageOk)
WebhookNoMessage ==
    WebhookText(EventOk, <<"'data'", ":", "{", "'billReference'", ":", "'B1'", "}">>, <<>>)
\* a JSON array, a text cut short, and no body at all
WebhookArray == <<"[", "]">>
WebhookCut == <<"{", "'event'", ":">>

WebhookRaws ==
    {WebhookCompact, WebhookSpaced, WebhookReordered, WebhookDecimal, WebhookNoRef,
     WebhookEmptyRef, WebhookNoEvent, WebhookEventNumber, WebhookEventEmpty,
     WebhookDataArray,
     WebhookDataNull, WebhookNoMessage, WebhookArray, WebhookCut, EmptyStr}

\* express.json(): req.body of a request with Content-Type application/json.
\* No body gives {}; a text that is not a JSON object or array, or does not
\* parse, makes the middleware pass an error on (ok FALSE).
ExpressJson(raw) ==
    IF raw = EmptyStr THEN [ok |-> TRUE, v |-> Obj(<<>>)]
    ELSE IF StripWs(raw) = <<>> \/ StripWs(raw)[1] \notin {"{", "["}
         THEN [ok |-> FALSE, v |-> UndefinedValue]
         ELSE JsonParse(raw)

\* the values the x-paykaduna-signature header takes: absent, empty, a text
\* that is no digest, and digests in the webhook scheme and in the scheme of
\* the outbound signer, under several keys, of the text sent and of its
\* re-serialisation

HeaderValues(raw) ==
    {NoValue, Text(EmptyStr), Text(<<"not-a-signature">>)}
    \cup {Digest(ae[1], ae[2], k, m) :
            ae \in {<<"sha512", "hex">>, <<"sha256", "base64">>},
            k \in {EmptyStr, K1, K2, W1},
            m \in {raw} \cup (IF ExpressJson(raw).ok
                              THEN {JsonStringify(ExpressJson(raw).v)} ELSE {})}

\* the digest computed in the scheme of the outbound signer
WebhookHashOutbound(body, c) ==
    generateHmacSignature(JsonStringify(body), c.webhookSecretKey)

\* createHmac('sha512', webhookSecretKey).update(JSON.stringify(req.body))
\*   .digest('hex')
WebhookHash(body, c) ==
    Digest("sha512", "hex", c.webhookSecretKey, JsonStringify(body))

\* v is a string and not the empty one
IsNonEmptyString(v) == v.t = "string" /\ v.tok # "''"

\* the truth value of a JSON value
JsTruthy(v) ==
    ~ \/ v.t = "undefined"
      \/ v.t = "literal" /\ v.tok \in {"null", "false"}
      \/ v.t = "string" /\ v.tok = "''"
      \/ v.t = "number" /\ v.tok = "0"

\* the text of a bill reference
StringOf(v) == IF v.tok = "'B1'" THEN <<"B1">> ELSE <<v.tok>>

\* the checks with the structure of the body looked at first
VerdictStructureFirst(body, signature, c) ==
    IF ~IsNonEmptyString(Member(body, "'event'"))
    THEN [status |-> 400,
          message |-> "Invalid request: event is required and must be a string"]
    ELSE IF Member(body, "'data'").t # "object"
    THEN [status |-> 400,
          message |-> "Invalid request: data is required and must be an object"]
    ELSE IF ~IsNonEmptyString(Member(body, "'message'"))
    THEN [status |-> 400,
          message |-> "Invalid request: message is required and must be a string"]
    ELSE IF signature = NoValue \/ signature = Text(EmptyStr)
    THEN [status |-> 401, message |-> "Webhook signature is required"]
    ELSE IF WebhookHash(body, c) # signature
    THEN [status |-> 401, message |-> "Webhook signature validation failed"]
    ELSE [status |-> 0, message |-> ""]

\* the checks of handleWebhook in their order: the status and message of the
\* rejection, status 0 when all checks pass
Verdict(body, signature, c) ==
    IF signature = NoValue \/ signature = Text(EmptyStr)
    THEN [status |-> 401, message |-> "Webhook signature is required"]
    ELSE IF WebhookHash(body, c) # signature
    THEN [status |-> 401, message |-> "Webhook signature validation failed"]
    ELSE IF ~IsNonEmptyString(Member(body, "'event'"))
    THEN [status |-> 400,
          message |-> "Invalid request: event is required and must be a string"]
    ELSE IF Member(body, "'data'").t # "object"
    THEN [status |-> 400,
          message |-> "Invalid request: data is required and must be an object"]
    ELSE IF ~IsNonEmptyString(Member(body, "'message'"))
    THEN [status |-> 400,
          message |-> "Invalid request: message is required and must be a string"]
    ELSE [status |-> 0, message |-> ""]

\* res.status(status).json({ event: 'webhook.error', data: {}, message })
Answer(w, status, message) ==
    [w EXCEPT !.pc = "answered", !.status = status, !.message = message,
              !.event = "'webhook.error'", !.data = Obj(<<>>)]

\* res.status(200).json({ event: event.event, data: event.data, message })
AnswerOk(w) ==
    [w EXCEPT !.pc = "answered", !.status = 200,
              !.message = "Webhook event processed successfully",
              !.event = Member(w.body, "'event'").tok,
              !.data = Member(w.body, "'data'")]

\* POST /api/v1/paykaduna/webhook arrives: express.json() parses the body,
\* then handleWebhook runs to its first await or to its response
HandleWebhook ==
    /\ wh.pc = "arrived"
    /\ LET p == ExpressJson(wh.raw) IN
       IF ~p.ok
       THEN /\ wh' = Answer(wh, 500, "Internal server error")
            /\ UNCHANGED <<inv, attempt, callers, out>>
       ELSE LET r == Verdict(p.v, wh.header, conf)
                w == [wh EXCEPT !.body = p.v]
                billReference == Member(Member(p.v, "'data'"), "'billReference'")
            IN IF r.status # 0
               THEN /\ wh' = Answer(w, r.status, r.message)
                    /\ UNCHANGED <<inv, attempt, callers, out>>
               ELSE IF JsTruthy(billReference)
               THEN /\ wh' = [w EXCEPT !.pc = "fetching",
                                       !.getBill = Append(@, billReference.tok)]
                    /\ Call(1)
                    /\ Dispatch(1, GetBillConfig(StringOf(billReference)))
               ELSE /\ wh' = AnswerOk(w)
                    /\ UNCHANGED <<inv, attempt, callers, out>>

\* payKadunaService.getBill has returned or thrown: the handler goes on to
\* billDbService.updateBillFromWebhook, which upserts the bill when the API
\* data has bill and billItems and else updates the row from the webhook data
GetBillSettled ==
    /\ wh.pc = "fetching"
    /\ inv[1].pc \in {"done", "failed"}
    /\ LET api == IF inv[1].pc = "done" THEN "data" ELSE "undefined" IN
       \E full \in (IF api = "data" THEN BOOLEAN ELSE {FALSE}) :
         wh' = [wh EXCEPT !.pc = "updating", !.apiBillData = api,
                          !.db = Append(@, [billReference |-> Last(wh.getBill),
                                            apiBillData |-> api,
                                            mode |-> IF full THEN "upsert" ELSE "update",
                                            event |-> Member(wh.body, "'event'").tok])]
    /\ UNCHANGED <<inv, attempt, callers, out>>

\* a failed database update answered as an error
UpdateSettledRethrown ==
    /\ wh.pc = "updating"
    /\ \E threw \in BOOLEAN :
         wh' = IF threw
               THEN Answer([wh EXCEPT !.dbThrew = threw], 500, "Internal server error")
               ELSE AnswerOk([wh EXCEPT !.dbThrew = threw])
    /\ UNCHANGED <<inv, attempt, callers, out>>

\* the database update has returned or thrown; a throw is logged only
UpdateSettled ==
    /\ wh.pc = "updating"
    /\ \E threw \in BOOLEAN :
         wh' = AnswerOk([wh EXCEPT !.dbThrew = threw])
    /\ UNCHANGED <<inv, attempt, callers, out>>

NextWebhook ==
    /\ \/ HandleWebhook
       \/ GetBillSettled
       \/ UpdateSettled
       \/ /\ \/ AttemptResolve(1)
             \/ AttemptReject(1)
             \/ BackoffOver(1)
          /\ UNCHANGED wh
    /\ UNCHANGED <<conf, sg, boot, eh, bulk, db>>

\* one webhook request under every valid configuration
InitWebhook ==
    /\ callers = {1}
    /\ inv = [i \in Invocations |-> NewInvocation(DefaultMaxRetries)]
    /\ attempt = [i \in Invocations |-> 0]
    /\ conf \in ValidConfs
    /\ out = OutIdle /\ sg = SgIdle
    /\ boot = BootIdle /\ eh = EhIdle /\ bulk = BulkIdle /\ db = DbIdle
    /\ \E raw \in WebhookRaws : \E header \in HeaderValues(raw) :
         wh = [WhIdle EXCEPT !.pc = "arrived", !.raw = raw, !.header = header]

SpecWebhook == InitWebhook /\ [][NextWebhook]_vars

\* -------------------------------------------------------- createBulkBills
\* a list of bill items, as the upstream returns it
ListOf(items) == [set |-> TRUE, items |-> items]


CreateBulkESBillConfig(requestBody) ==
    [method |-> "POST", url |-> <<"/api/ESBills/CreateBulkESBill">>, params |-> NoParams,
     data |-> ObjectData(WithEngineCode(requestBody)),
     headers |-> [present |-> FALSE, h |-> NoHeaders]]

\* result.failedBillItems taken as true whenever the list is there
hasFailuresTruthy(result) == result.failedBillItems.set

\* result.failedBillItems && result.failedBillItems.length > 0
hasFailures(result) ==
    result.failedBillItems.set /\ Len(result.failedBillItems.items) > 0

\* res.status(hasFailures ? 207 : 200).json(result)
BulkAnswer(b, result) ==
    [b EXCEPT !.pc = "answered", !.result = result,
              !.status = IF hasFailures(result) THEN 207 ELSE 200]

\* the error goes through asyncHandler to errorHandler
BulkFail(b, err) ==
    [b EXCEPT !.pc = "answered", !.error = errorHandler(err),
              !.status = errorHandler(err).statusCode]

\* POST /v1/bills/bulk arrives: the body is validated (esBillDtos is an
\* array of at least one bill) and createBulkESBill is called
CreateBulkBills ==
    /\ bulk.pc = "arrived"
    /\ IF /\ Member(bulk.body, "'esBillDtos'").t = "array"
          /\ Len(Member(bulk.body, "'esBillDtos'").el) >= 1
       THEN /\ bulk' = [bulk EXCEPT !.pc = "calling"]
            /\ Call(1)
            /\ Dispatch(1, CreateBulkESBillConfig(bulk.body))
       ELSE /\ bulk' = BulkFail(bulk, [kind |-> "zod", status |-> NoResponse,
                                       upstream |-> "",
                                       message |-> "esBillDtos: At least one bill is required"])
            /\ UNCHANGED <<inv, attempt, callers, out>>

\* createBulkESBill has returned or thrown
BulkUpstreamSettled ==
    /\ bulk.pc = "calling"
    /\ inv[1].pc \in {"done", "failed"}
    /\ IF inv[1].pc = "failed"
       THEN LET e == Last(inv[1].rejected) IN
            bulk' = BulkFail(bulk, [kind |-> e.kind, status |-> e.status,
                                    upstream |-> "", message |-> e.body])
       ELSE IF bulk.upstream.bill /\ bulk.upstream.billItems.set
            THEN bulk' = [bulk EXCEPT !.pc = "saving", !.saves = @ + 1]
            ELSE bulk' = BulkAnswer(bulk, bulk.upstream)
    /\ UNCHANGED <<inv, attempt, callers, out>>

\* saveBillFromResponse has returned or thrown; a throw is logged only
BulkSaveSettled ==
    /\ bulk.pc = "saving"
    /\ \E threw \in BOOLEAN :
         bulk' = BulkAnswer([bulk EXCEPT !.saveThrew = threw], bulk.upstream)
    /\ UNCHANGED <<inv, attempt, callers, out>>

NextBulk ==
    /\ \/ CreateBulkBills
       \/ BulkUpstreamSettled
       \/ BulkSaveSettled
       \/ /\ \/ AttemptResolve(1)
             \/ AttemptReject(1)
             \/ BackoffOver(1)
          /\ UNCHANGED bulk
    /\ UNCHANGED <<conf, sg, wh, boot, eh, db>>

\* one bulk request, its body with one bill or with none, and what
\* createBulkESBill will return if the upstream answers: bill, billItems and
\* failedBillItems, each of which the upstream may leave out
InitBulk ==
    /\ callers = {1}
    /\ inv = [i \in Invocations |-> NewInvocation(DefaultMaxRetries)]
    /\ attempt = [i \in Invocations |-> 0]
    /\ conf = ConfIdle /\ out = OutIdle /\ sg = SgIdle /\ wh = WhIdle
    /\ boot = BootIdle /\ eh = EhIdle /\ db = DbIdle
    /\ \E body \in {Obj(<<[k |-> "'esBillDtos'", v |-> Arr(<<JsonParse(JsonCompact).v>>)]>>),
                    Obj(<<[k |-> "'esBillDtos'", v |-> Arr(<<>>)]>>)},
          r \in [bill : BOOLEAN,
                 billItems : {NoList, ListOf(<<>>), ListOf(<<"item1">>)},
                 failedBillItems : {NoList, ListOf(<<>>), ListOf(<<"item2">>),
                                    ListOf(<<"item2", "item3">>)}] :
         bulk = [BulkIdle EXCEPT !.pc = "arrived", !.body = body, !.upstream = r]

SpecBulk == InitBulk /\ [][NextBulk]_vars

\* ---------------------------------------------------------------- startup


\* the module env.ts is loaded: validateEnv() throws and the process ends,
\* or config is exported; PK_API_KEY is z.string().min(1) and
\* PK_WEBHOOK_SECRET_KEY is z.string()
Startup ==
    /\ boot.status = "loading"
    /\ IF /\ boot.PK_API_KEY.set /\ Len(boot.PK_API_KEY.v) >= 1
          /\ boot.PK_WEBHOOK_SECRET_KEY.set
       THEN /\ boot' = [boot EXCEPT !.status = "up"]
            /\ conf' = [apiKey |-> boot.PK_API_KEY.v,
                        webhookSecretKey |-> boot.PK_WEBHOOK_SECRET_KEY.v]
       ELSE /\ boot' = [boot EXCEPT !.status = "failed"]
            /\ conf' = conf
    /\ UNCHANGED <<inv, attempt, callers, out, sg, wh, eh, bulk, db>>

\* the running service receives a webhook request
WebhookArrives ==
    /\ boot.status = "up"
    /\ wh.pc = "none"
    /\ \E raw \in WebhookRaws : \E header \in HeaderValues(raw) :
         wh' = [wh EXCEPT !.pc = "arrived", !.raw = raw, !.header = header]
    /\ UNCHANGED <<inv, attempt, callers, conf, out, sg, boot, eh, bulk, db>>

NextBoot ==
    \/ Startup
    \/ WebhookArrives
    \/ NextWebhook

\* the process starts under any values of PK_API_KEY and of
\* PK_WEBHOOK_SECRET_KEY in process.env
InitBoot ==
    /\ callers = {1}
    /\ inv = [i \in Invocations |-> NewInvocation(DefaultMaxRetries)]
    /\ attempt = [i \in Invocations |-> 0]
    /\ conf = ConfIdle /\ out = OutIdle /\ sg = SgIdle /\ wh = WhIdle
    /\ \E a \in {Unset, EnvVar(EmptyStr), EnvVar(K1), EnvVar(K2)},
          w \in {Unset, EnvVar(EmptyStr), EnvVar(W1), EnvVar(K1)} :
         boot = [status |-> "loading", PK_API_KEY |-> a, PK_WEBHOOK_SECRET_KEY |-> w]
    /\ eh = EhIdle /\ bulk = BulkIdle /\ db = DbIdle

SpecBoot == InitBoot /\ [][NextBoot]_vars

\* ------------------------------------------------------------- upsertBill
\* the rows tx.billItem.createMany writes for call c: one per item
ItemRows(c, items) ==
    {[by |-> c, pos |-> k, revenueCode |-> items[k]] : k \in 1..Len(items)}

\* the item rows of the bill before any call
InitialRows == ItemRows(0, <<"r0">>)

\* upsertBill(billData, billItems) is called, billItems a list of revenue
\* codes: prisma.$transaction opens
UpsertBill(c) ==
    /\ db.call[c].pc = "idle"
    /\ \E items \in {<<>>, <<"r1">>, <<"r1", "r2">>} :
         db' = [db EXCEPT !.call[c] = [CallIdle EXCEPT !.pc = "begun", !.items = items,
                                                      !.after = Len(db.log)]]

\* tx.bill.upsert: writes the row of the reference, which it holds until the
\* transaction ends; it waits while another open transaction holds the row
TxUpsert(c) ==
    /\ db.call[c].pc = "begun"
    /\ db.lock \in {0, c}
    /\ db' = [db EXCEPT !.lock = c, !.call[c].pc = "upserted"]

\* the transaction without the deleteMany
TxDeleteManyNone(c) ==
    /\ db.call[c].pc = "upserted"
    /\ db' = [db EXCEPT !.call[c].pc = "deleted"]

\* tx.billItem.deleteMany: deletes the item rows of the reference that are
\* committed when the statement runs
TxDeleteMany(c) ==
    /\ db.call[c].pc = "upserted"
    /\ db' = [db EXCEPT !.call[c].pc = "deleted", !.call[c].deleted = db.items]

\* tx.billItem.createMany, when billItems is not empty
TxCreateMany(c) ==
    /\ db.call[c].pc = "deleted"
    /\ Len(db.call[c].items) > 0
    /\ db' = [db EXCEPT !.call[c].pc = "created",
                        !.call[c].created = ItemRows(c, db.call[c].items)]

\* the callback of prisma.$transaction returns: the writes of the transaction
\* are committed together, the row is released, the success is logged
TxCommit(c) ==
    /\ \/ db.call[c].pc = "created"
       \/ db.call[c].pc = "deleted" /\ Len(db.call[c].items) = 0
    /\ db' = [db EXCEPT !.call[c].pc = "committed",
                        !.bill = [exists |-> TRUE, by |-> c],
                        !.items = (@ \ db.call[c].deleted) \cup db.call[c].created,
                        !.lock = IF @ = c THEN 0 ELSE @,
                        !.log = Append(@, c)]

\* a statement of the transaction throws, or the transaction times out: its
\* writes are rolled back and upsertBill rethrows
TxThrow(c) ==
    /\ db.call[c].pc \in {"begun", "upserted", "deleted", "created"}
    /\ db' = [db EXCEPT !.call[c].pc = "failed",
                        !.lock = IF @ = c THEN 0 ELSE @]

NextDb ==
    /\ \E c \in Calls :
         \/ UpsertBill(c)
         \/ TxUpsert(c)
         \/ TxDeleteMany(c)
         \/ TxCreateMany(c)
         \/ TxCommit(c)
         \/ TxThrow(c)
    /\ UNCHANGED <<inv, attempt, callers, conf, out, sg, wh, boot, eh, bulk>>

\* the bill is not mirrored yet, or it is, with its items
InitDb ==
    /\ callers = {}
    /\ inv = [i \in Invocations |-> NewInvocation(DefaultMaxRetries)]
    /\ attempt = [i \in Invocations |-> 0]
    /\ conf = ConfIdle /\ out = OutIdle /\ sg = SgIdle /\ wh = WhIdle
    /\ boot = BootIdle /\ eh = EhIdle /\ bulk = BulkIdle
    /\ \/ db = DbIdle
       \/ db = [DbIdle EXCEPT !.bill = [exists |-> TRUE, by |-> 0], !.items = InitialRows]

SpecDb == InitDb /\ [][NextDb]_vars

\* ------------------------------------------ signRequest called on configs
\* signRequest(config, key) is called on config object j; the object is
\* changed in place
SignCall(j) ==
    /\ sg.n[j] < MaxSignCalls
    /\ LET r == signRequest(sg.c[j], sg.key)
       IN sg' = [sg EXCEPT !.c[j] = r.config,
                           !.n[j] = @ + 1,
                           !.threw[j] = r.threw,
                           !.sigs[j] = Append(@, SignatureOf(r.config))]

NextSign ==
    /\ \E j \in {1, 2} : SignCall(j)
    /\ UNCHANGED <<inv, attempt, callers, conf, out, wh, boot, eh, bulk, db>>

\* two config objects that differ at most in body and headers, and one key
InitSign ==
    /\ \E k \in {EmptyStr, K1, K2}, c1 \in SignConfigs, d2 \in SignDatas, h2 \in SignHeaders :
         LET c2 == [c1 EXCEPT !.data = d2, !.headers = h2] IN
         sg = [key |-> k, orig |-> <<c1, c2>>, c |-> <<c1, c2>>, n |-> <<0, 0>>,
               threw |-> <<FALSE, FALSE>>, sigs |-> <<<<>>, <<>>>>]
    /\ callers = {}
    /\ inv = [i \in Invocations |-> NewInvocation(DefaultMaxRetries)]
    /\ attempt = [i \in Invocations |-> 0]
    /\ conf = ConfIdle /\ out = OutIdle /\ wh = WhIdle
    /\ boot = BootIdle /\ eh = EhIdle /\ bulk = BulkIdle /\ db = DbIdle

SpecSign == InitSign /\ [][NextSign]_vars

\* ================================================================ claims
Terminated(i) == inv[i].pc \in {"done", "failed"}

\* an AxiosError whose response status is in [400, 500)
Is4xx(e) == e.kind = "axios" /\ e.status \in 400..499

\* an AxiosError whose response status is >= 500
Is5xx(e) == e.kind = "axios" /\ e.status >= 500

\* a failure with no response received (connection failure, timeout)
IsNoResponse(e) == e.kind = "axios" /\ e.status = NoResponse

IsResponse(e) == e.kind = "response"

\* the documented backoff schedule, written out
ScheduleMs(n) ==
    CASE n = 0 -> 1000
      [] n = 1 -> 2000
      [] n = 2 -> 4000
      [] n = 3 -> 8000
      [] OTHER -> 10000

RECURSIVE SumSeq(_)
SumSeq(q) == IF q = <<>> THEN 0 ELSE q[1] + SumSeq(Tail(q))

\* C1: an attempt n that fails with a 4xx AxiosError ends the invocation at
\* once: it is rejected with that error, requestFn was called n+1 times, no
\* sleep follows the failure and no later attempt is made, whatever the
\* remaining budget.
C1_ClientErrorNotRetried ==
    \A i \in callers :
        \A k \in 1..Len(inv[i].hist) :
            Is4xx(inv[i].hist[k]) =>
                /\ k = Len(inv[i].hist)
                /\ inv[i].pc = "failed"
                /\ inv[i].rejected = <<inv[i].hist[k]>>
                /\ inv[i].calls = k
                /\ Len(inv[i].sleeps) = k - 1
                /\ inv[i].timer = 0
                /\ inv[i].inflight = 0

\* a 4xx on the third attempt while two retries are still in the budget
C1_Witness ==
    \E i \in callers :
        /\ Len(inv[i].hist) = 3
        /\ Is4xx(inv[i].hist[3])
        /\ inv[i].maxRetries >= 4
        /\ inv[i].pc = "failed"

\* C2: N retryable failures (no response, or status >= 500) followed by a
\* success on attempt N resolve the invocation with exactly the response of
\* attempt N after exactly N+1 calls of requestFn.
C2_SuccessAfterRetries ==
    \A i \in callers :
        LET h == inv[i].hist IN
        (/\ Len(h) >= 1
         /\ IsResponse(Last(h))
         /\ \A k \in 1..(Len(h) - 1) : IsNoResponse(h[k]) \/ Is5xx(h[k]))
        =>
            /\ inv[i].pc = "done"
            /\ inv[i].resolved = <<Last(h)>>
            /\ inv[i].rejected = <<>>
            /\ inv[i].calls = Len(h)
            /\ Last(h).id = Len(h)
            /\ Len(h) <= inv[i].maxRetries + 1

\* success on the last attempt of the default budget, after three failures
C2_Witness ==
    \E i \in callers :
        /\ inv[i].maxRetries = DefaultMaxRetries
        /\ Len(inv[i].hist) = DefaultMaxRetries + 1
        /\ IsNoResponse(inv[i].hist[1])
        /\ Is5xx(inv[i].hist[2])
        /\ IsResponse(Last(inv[i].hist))
        /\ inv[i].pc = "done"

\* C3: when every attempt fails with a status >= 500, requestFn is called
\* exactly maxRetries+1 times, the sleeps between attempts are 1000, 2000,
\* 4000 ms and never more than 10000 ms afterwards, no sleep follows the last
\* attempt, and the invocation rejects with the error of the last attempt.
C3_ExhaustionOn5xx ==
    \A i \in callers :
        LET h == inv[i].hist
            mr == inv[i].maxRetries
        IN
        (Len(h) >= 1 /\ \A k \in 1..Len(h) : Is5xx(h[k])) =>
            /\ Len(h) <= mr + 1
            /\ \A k \in 1..Len(inv[i].sleeps) :
                  /\ k <= 3 => inv[i].sleeps[k] = ScheduleMs(k - 1)
                  /\ inv[i].sleeps[k] <= 10000
            /\ IF Len(h) = mr + 1
               THEN /\ inv[i].pc = "failed"
                    /\ inv[i].calls = mr + 1
                    /\ Len(inv[i].sleeps) = mr
                    /\ inv[i].timer = 0
                    /\ inv[i].rejected = <<Last(h)>>
                    /\ inv[i].resolved = <<>>
               ELSE /\ inv[i].pc \in {"waiting", "attempting"}
                    /\ inv[i].rejected = <<>>
                    /\ Len(inv[i].sleeps) = Len(h)

\* five 5xx failures with maxRetries = 4: the budget is exhausted
C3_Witness ==
    \E i \in callers :
        /\ inv[i].maxRetries = 4
        /\ Len(inv[i].hist) = 5
        /\ \A k \in 1..5 : Is5xx(inv[i].hist[k])
        /\ inv[i].pc = "failed"
        /\ inv[i].sleeps = <<1000, 2000, 4000, 8000>>

\* C4: in every state the number of calls of requestFn is at most
\* maxRetries+1 (4 with the default) and the attempt index is in
\* 0..maxRetries.
C4_AttemptBound ==
    \A i \in callers :
        /\ inv[i].calls <= inv[i].maxRetries + 1
        /\ inv[i].maxRetries = 3 => inv[i].calls <= 4
        /\ attempt[i] \in 0..inv[i].maxRetries

\* the fourth call of an invocation with the default budget has failed
C4_Witness ==
    \E i \in callers :
        /\ inv[i].maxRetries = DefaultMaxRetries
        /\ inv[i].calls = 4
        /\ attempt[i] = 3
        /\ inv[i].pc = "failed"

\* C5: the error an invocation rejects with is the error thrown by the last
\* attempt made, unchanged: same identity, status and body.
C5_ErrorUnchanged ==
    \A i \in callers :
        /\ inv[i].pc = "failed" =>
              /\ inv[i].hist # <<>>
              /\ inv[i].rejected = <<Last(inv[i].hist)>>
              /\ Last(inv[i].hist).id = inv[i].calls
        /\ \A k \in 1..Len(inv[i].rejected) :
              /\ \E j \in 1..Len(inv[i].hist) : inv[i].rejected[k] = inv[i].hist[j]
              /\ ~IsResponse(inv[i].rejected[k])

\* exhaustion: the second 5xx of an invocation with maxRetries = 1 is rejected
C5_Witness ==
    \E i \in callers :
        /\ inv[i].maxRetries = 1
        /\ inv[i].pc = "failed"
        /\ Len(inv[i].hist) = 2
        /\ Is5xx(inv[i].hist[2])
        /\ inv[i].rejected[1].id = 2
        /\ inv[i].rejected[1].body \in Bodies

\* a failure the loop goes on after: not a response, and not an AxiosError
\* whose response has a status below 500
WasRetried(e) ==
    /\ ~IsResponse(e)
    /\ ~(e.kind = "axios" /\ e.status \in 1..499)

\* C6: attempts of one invocation are strictly sequential: attempt n+1 starts
\* only after attempt n has failed, was classified retryable and the backoff
\* timer set for n has fired; never are two attempts in flight together.
C6_StateOk ==
    \A i \in callers :
        /\ inv[i].inflight \in {0, 1}
        /\ inv[i].calls = Len(inv[i].hist) + inv[i].inflight
        /\ inv[i].inflight = 1 => inv[i].timer = 0 /\ inv[i].pc = "attempting"

C6_StepOk ==
    \A i \in callers :
        inv'[i].calls # inv[i].calls =>
            /\ inv'[i].calls = inv[i].calls + 1
            /\ inv[i].inflight = 0
            /\ inv'[i].timer = 0
            /\ \/ inv[i].pc = "idle" /\ inv[i].calls = 0
               \/ /\ inv[i].pc = "waiting"
                  /\ Len(inv[i].hist) = inv[i].calls
                  /\ WasRetried(Last(inv[i].hist))
                  /\ Len(inv[i].sleeps) = inv[i].calls
                  /\ inv[i].timer = Last(inv[i].sleeps)
                  /\ inv[i].timer = ScheduleMs(inv[i].calls - 1)

C6_Sequential == [](C6_StateOk) /\ [][C6_StepOk]_vars

\* the third attempt is in flight after two failures and two fired timers
C6_Witness ==
    \E i \in callers :
        /\ inv[i].pc = "attempting"
        /\ inv[i].calls = 3
        /\ inv[i].inflight = 1
        /\ inv[i].sleeps = <<1000, 2000>>
        /\ inv[i].timer = 0

\* C7: an invocation has exactly one outcome: it resolves once or rejects
\* once, never both; once done or failed it calls requestFn no more and
\* sleeps no more.
C7_StateOk ==
    \A i \in callers :
        /\ Len(inv[i].resolved) + Len(inv[i].rejected) <= 1
        /\ inv[i].pc = "done" <=> Len(inv[i].resolved) = 1
        /\ inv[i].pc = "failed" <=> Len(inv[i].rejected) = 1
        /\ Terminated(i) => inv[i].inflight = 0 /\ inv[i].timer = 0

C7_StepOk ==
    \A i \in callers :
        Terminated(i) => inv'[i] = inv[i] /\ attempt'[i] = attempt[i]

C7_SingleOutcome == [](C7_StateOk) /\ [][C7_StepOk]_vars

\* an invocation that resolved on its second attempt with budget left
C7_Witness ==
    \E i \in callers :
        /\ inv[i].pc = "done"
        /\ inv[i].calls = 2
        /\ inv[i].maxRetries >= 3
        /\ Len(inv[i].resolved) = 1
        /\ inv[i].rejected = <<>>

\* C8: the delay after a retryable failure on attempt n is
\* min(1000 * 2^n, 10000): 1000, 2000, 4000, 8000 for n = 0..3, 10000 from
\* n = 4 on, non-decreasing, never above 10000, and at most 7000 ms in total
\* for an invocation with the default maxRetries.
C8_BackoffSchedule ==
    \A i \in callers :
        /\ \A k \in 1..Len(inv[i].sleeps) :
              /\ inv[i].sleeps[k] = ScheduleMs(k - 1)
              /\ inv[i].sleeps[k] <= 10000
              /\ k > 1 => inv[i].sleeps[k - 1] <= inv[i].sleeps[k]
        /\ inv[i].maxRetries = 3 => SumSeq(inv[i].sleeps) <= 7000

\* the delay after a failure on attempt 4 has been computed: the cap applies
C8_Witness ==
    \E i \in callers :
        /\ inv[i].sleeps = <<1000, 2000, 4000, 8000, 10000>>
        /\ inv[i].pc = "waiting"

\* One invocation run alone on the outcome sequence h, from frame s, taking
\* h[k] as the outcome of the next attempt.
RECURSIVE RunAlone(_, _, _)
RunAlone(s, h, k) ==
    IF k > Len(h)
    THEN s
    ELSE LET s0 == IF s.pc = "waiting" THEN Resume(s) ELSE s IN
         IF s0.pc # "attempting"
         THEN [s0 EXCEPT !.pc = "no attempt left for the outcome"]
         ELSE RunAlone(IF IsResponse(h[k])
                       THEN OnSuccess(Settled(s0, h[k]), h[k])
                       ELSE OnFailure(Settled(s0, h[k]), h[k]),
                       h, k + 1)

\* the frame invocation i would be in had it run alone on its own outcomes
Alone(i) ==
    LET r == RunAlone(LoopTop(NewInvocation(inv[i].maxRetries)), inv[i].hist, 1)
    IN IF r.pc = "waiting" /\ inv[i].pc # "waiting" THEN Resume(r) ELSE r

\* C9: concurrent invocations are independent: under every interleaving of
\* two invocations the attempt count, the delays and the outcome of each are
\* those it has when run alone on the same attempt outcomes, and neither
\* one blocks the other.
C9_Independent ==
    \A i \in callers :
        /\ inv[i].pc # "idle" =>
              [inv[i] EXCEPT !.attempt = attempt[i]] = Alone(i)
        /\ inv[i].pc = "idle" => ENABLED Call(i)
        /\ inv[i].pc = "attempting" => ENABLED Resolve(i) /\ ENABLED Reject(i)
        /\ inv[i].pc = "waiting" => ENABLED TimerFire(i)

\* one invocation is in its second backoff wait while the other, after two
\* failures of its own, has its third attempt in flight
C9_Witness ==
    /\ inv[1].pc = "waiting"
    /\ Len(inv[1].sleeps) = 2
    /\ inv[2].pc = "attempting"
    /\ inv[2].calls = 3
    /\ attempt[1] = 1
    /\ attempt[2] = 2

IsWriteMethod(m) == m \in {"POST", "put", "PATCH"}

IsGetMethod(m) == m \in {"", "GET"}

\* the minified JSON of each body of SignDatas, written out
MinifiedRef(d) ==
    CASE d = StringData(JsonSpaced) -> JsonCompact
      [] d = StringData(JsonDecimal) -> <<"{", "'amount'", ":", "10000", "}">>
      [] d.t = "object" -> JsonCompact
      [] OTHER -> d.s

\* C11: signRequest called with an empty API key fails and does not sign: no
\* signature header is attached and the config is left as it was passed in.
C11_EmptyKeyRejected ==
    \A j \in {1, 2} :
        (sg.key = EmptyStr /\ sg.n[j] >= 1) =>
            /\ sg.threw[j]
            /\ sg.c[j] = sg.orig[j]
            /\ \A k \in 1..Len(sg.sigs[j]) : sg.sigs[j][k] = SignatureOf(sg.orig[j])

\* a POST config without headers was passed with the empty key
C11_Witness ==
    /\ sg.key = EmptyStr
    /\ sg.n[1] = 1
    /\ sg.orig[1].method = "POST"
    /\ sg.orig[1].data = StringData(JsonCompact)
    /\ ~sg.orig[1].headers.present
    /\ sg.threw[1]

\* C12: signing is deterministic: configs with the same method, url, params
\* and data get the same signature under the same key, whatever their other
\* headers and whatever calls were made before.
C12_Deterministic ==
    /\ \A j \in {1, 2} :
          (sg.key # EmptyStr /\ sg.n[j] = 2) =>
              /\ sg.sigs[j][1] = sg.sigs[j][2]
              /\ sg.sigs[j][2] = SignatureOf(sg.c[j])
    /\ (/\ sg.key # EmptyStr
        /\ sg.n[1] >= 1 /\ sg.n[2] >= 1
        /\ sg.orig[1].data = sg.orig[2].data)
       => sg.sigs[1][1] = sg.sigs[2][1]

\* a whitespace body signed twice on one config object and once on another
\* object that has other headers
C12_Witness ==
    /\ sg.key = K1
    /\ sg.n[1] = 2 /\ sg.n[2] = 1
    /\ sg.orig[1].method = "POST"
    /\ sg.orig[1].data = StringData(JsonSpaced)
    /\ sg.orig[2].data = StringData(JsonSpaced)
    /\ ~sg.orig[1].headers.present
    /\ sg.orig[2].headers.present
    /\ sg.orig[2].headers.h["X-Api-Signature"] = StaleSignature

\* C13: for POST/PUT/PATCH the signed payload is the minified JSON of the
\* body (a string that parses is re-serialised, one that does not is used as
\* it is, an object is serialised); two bodies get the same signature exactly
\* when their minified forms are equal.
C13_BodyMinified ==
    /\ \A j \in {1, 2} :
          (/\ sg.key # EmptyStr /\ sg.n[j] >= 1
           /\ IsWriteMethod(sg.orig[j].method)
           /\ sg.orig[j].data.t \in {"string", "object"})
          => /\ sg.sigs[j][1] =
                   Digest("sha256", "base64", sg.key, MinifiedRef(sg.orig[j].data))
             /\ (sg.orig[j].data.t = "object" \/ JsonParse(sg.orig[j].data.s).ok) =>
                   \A k \in 1..Len(sg.sigs[j][1].msg) : sg.sigs[j][1].msg[k] # WS
    /\ (/\ sg.key # EmptyStr /\ sg.n[1] >= 1 /\ sg.n[2] >= 1
        /\ IsWriteMethod(sg.orig[1].method)
        /\ sg.orig[1].data.t \in {"string", "object"}
        /\ sg.orig[2].data.t \in {"string", "object"})
       => ((MinifiedRef(sg.orig[1].data) = MinifiedRef(sg.orig[2].data))
            <=> (sg.sigs[1][1] = sg.sigs[2][1]))

\* a compact and a whitespace form of one JSON text signed by PATCH requests
C13_Witness ==
    /\ sg.key = K2
    /\ sg.orig[1].method = "PATCH"
    /\ sg.orig[1].data = StringData(JsonSpaced)
    /\ sg.orig[2].data = StringData(JsonCompact)
    /\ sg.n[1] = 1 /\ sg.n[2] = 1
    /\ sg.sigs[1][1] = sg.sigs[2][1]
    /\ sg.sigs[1][1].msg = JsonCompact

\* C14: for a GET request the signed payload is the path followed by "?" and
\* the URL-encoded query string when there are query parameters, and exactly
\* the path when there are none, be params absent or an empty mapping.
C14_GetPayload ==
    \A j \in {1, 2} :
        (sg.key # EmptyStr /\ sg.n[j] >= 1 /\ IsGetMethod(sg.orig[j].method)) =>
            sg.sigs[j][1].msg =
                IF sg.orig[j].params.present /\ sg.orig[j].params.kv # <<>>
                THEN sg.orig[j].url \o <<"?", "criteria", "=", "a", "+", "b">>
                ELSE sg.orig[j].url

\* C15: attaching the X-Api-Signature header is the only change signRequest
\* makes: method, url, params, data and every other header are as before; a
\* string body with white space is signed minified and left as it was.
C15_OnlyHeaderAttached ==
    \A j \in {1, 2} :
        sg.n[j] >= 1 =>
            /\ sg.c[j].method = sg.orig[j].method
            /\ sg.c[j].url = sg.orig[j].url
            /\ sg.c[j].params = sg.orig[j].params
            /\ sg.c[j].data = sg.orig[j].data
            /\ \A name \in HeaderNames \ {"X-Api-Signature"} :
                  (IF sg.c[j].headers.present THEN sg.c[j].headers.h[name] ELSE NoValue)
                  = (IF sg.orig[j].headers.present THEN sg.orig[j].headers.h[name]
                     ELSE NoValue)
            /\ sg.threw[j] => sg.c[j] = sg.orig[j]

\* a POST whose body is a string with white space has been signed
C15_Witness ==
    /\ sg.key = K1
    /\ sg.n[1] = 1
    /\ sg.orig[1].method = "POST"
    /\ sg.orig[1].data = StringData(JsonSpaced)
    /\ sg.orig[1].headers.present
    /\ sg.sigs[1][1].msg = JsonCompact
    /\ sg.c[1].data = StringData(JsonSpaced)
    /\ sg.c[1].headers.h["Content-Type"] = JsonContentType

\* C16: every request sent, the first attempt and every retry, whatever the
\* service method, carries X-Api-Signature as signRequest computes it with
\* the API key from that attempt's own method, url, params and data.
C16_EveryAttemptSigned ==
    \A i \in Invocations :
        /\ Len(out[i].sent) = inv[i].calls
        /\ \A k \in 1..Len(out[i].sent) :
              LET r == out[i].sent[k] IN
              /\ r.method = out[i].cfg.method /\ r.url = out[i].cfg.url
              /\ r.params = out[i].cfg.params /\ r.data = out[i].cfg.data
              /\ SignatureOf(r) =
                    SignatureOf(signRequest([r EXCEPT !.headers = DefaultHeaders],
                                            conf.apiKey).config)
              /\ SignatureOf(r).alg = "sha256" /\ SignatureOf(r).enc = "base64"
              /\ SignatureOf(r).key = conf.apiKey
              /\ r.url = <<"/api/ESBills/GetBill">> =>
                    SignatureOf(r).msg =
                        <<"/api/ESBills/GetBill", "?", "billreference", "=", "B1">>
              /\ r.method = "POST" =>
                    SignatureOf(r).msg = JsonStringify(r.data.v)

\* the fourth attempt of a createESBill call, after three retries, is out
C16_Witness ==
    /\ Len(out[1].sent) = 4
    /\ inv[1].pc = "attempting"
    /\ Len(inv[1].sleeps) = 3
    /\ out[1].cfg.method = "POST"
    /\ conf.apiKey = K2
    /\ SignatureOf(out[1].sent[4]) =
          Digest("sha256", "base64", K2,
                 <<"{", "'identifier'", ":", "'T1'", ",", "'amount'", ":", "1", ",",
                   "'engineCode'", ":", "'ENG1'", "}">>)

\* -------------------------------------------------- claims on the webhook
Answered == wh.pc = "answered"

\* the getBill call or the database update has been made
Business ==
    \/ inv[1].calls > 0 \/ out[1].sent # <<>>
    \/ wh.getBill # <<>> \/ wh.db # <<>>

\* the hex HMAC-SHA512, under the configured secret, of the text sent
HmacOfSent == Digest("sha512", "hex", conf.webhookSecretKey, wh.raw)

\* the signature header is absent or empty
SignatureMissing == wh.header \in {NoValue, Text(EmptyStr)}

\* the signature header differs from the HMAC the handler computes
SignatureMismatch ==
    /\ ExpressJson(wh.raw).ok
    /\ wh.header # Digest("sha512", "hex", conf.webhookSecretKey,
                          JsonStringify(ExpressJson(wh.raw).v))

\* C17: a webhook whose signature header is absent or empty, or differs from
\* the computed HMAC, is answered 401 and nothing else happens: no result of
\* the structure checks, no getBill call, no database update; business
\* processing happens only after the signature check has passed.
C17_BadSignatureOnly401 ==
    /\ (SignatureMissing \/ SignatureMismatch) =>
          /\ ~Business
          /\ Answered => wh.status = 401
    /\ (Business \/ wh.status \in {200, 400}) =>
          ~SignatureMissing /\ ~SignatureMismatch

\* C18: a webhook whose signature is the hex HMAC-SHA512, under the
\* configured secret, of the exact JSON text sent as the body passes the
\* signature check, whatever the key order and white space of the text.
C18_ExactTextAccepted ==
    (/\ Answered
     /\ wh.raw # EmptyStr /\ JsonParse(wh.raw).ok
     /\ wh.header = HmacOfSent)
    => wh.status # 401

\* C19: a webhook whose signature is any value other than the hex
\* HMAC-SHA512 of the body under the configured secret is never answered 200:
\* it is answered 401 and nothing is tried again.
C19_OtherSignatureRejected ==
    wh.header # HmacOfSent =>
        /\ wh.status # 200
        /\ ~Business
        /\ Answered => wh.status = 401

\* C20: the outbound scheme (HMAC-SHA256, base64, API key) and the webhook
\* scheme (HMAC-SHA512, hex, webhook secret) do not stand in for each other:
\* a signature of the outbound signer is never accepted as webhook
\* signature, also when both secrets are the same string.
C20_SchemesSeparate ==
    /\ (wh.header.alg = "sha256" /\ wh.header.enc = "base64") =>
          /\ wh.status \notin {200, 400}
          /\ ~Business
          /\ (Answered /\ ExpressJson(wh.raw).ok) => wh.status = 401
    /\ (Business \/ wh.status \in {200, 400}) =>
          /\ wh.header.alg = "sha512" /\ wh.header.enc = "hex"
          /\ wh.header.key = conf.webhookSecretKey
    /\ \A k \in 1..Len(out[1].sent) :
          /\ SignatureOf(out[1].sent[k]).alg = "sha256"
          /\ SignatureOf(out[1].sent[k]).enc = "base64"
          /\ SignatureOf(out[1].sent[k]).key = conf.apiKey

\* both secrets are the same string and the header is what the outbound
\* signer makes of the body under it: answered 401
C20_Witness ==
    /\ conf.apiKey = K1 /\ conf.webhookSecretKey = K1
    /\ wh.raw = WebhookCompact
    /\ wh.header = generateHmacSignature(WebhookCompact, conf.apiKey)
    /\ Answered
    /\ wh.status = 401
    /\ wh.message = "Webhook signature validation failed"

\* ----------------------------------------------------- claims on startup
\* C21: startup validation fails, and no request is handled, when
\* PK_API_KEY or PK_WEBHOOK_SECRET_KEY is absent or empty; no webhook is
\* verified with an empty secret.
C21_SecretsRequired ==
    /\ (\/ ~boot.PK_API_KEY.set \/ boot.PK_API_KEY.v = EmptyStr
        \/ ~boot.PK_WEBHOOK_SECRET_KEY.set \/ boot.PK_WEBHOOK_SECRET_KEY.v = EmptyStr)
       => /\ boot.status \in {"loading", "failed"}
          /\ wh.pc = "none"
    /\ wh.pc # "none" => conf.webhookSecretKey # EmptyStr

\* ------------------------------------------------ claims on errorHandler
\* C22: an outbound failure without an upstream response (network error,
\* timeout) that reaches errorHandler is reported as NETWORK_ERROR with
\* status 500; UPSTREAM_SERVER_ERROR is reported only when the provider
\* answered with a status >= 500.
C22_NetworkErrorReported ==
    \A k \in 1..Len(eh) :
        LET err == eh[k].err
            res == eh[k].sent[1]
        IN /\ (err.kind = "axios" /\ err.status = NoResponse) =>
                 res.code = "NETWORK_ERROR" /\ res.statusCode = 500
           /\ res.code = "UPSTREAM_SERVER_ERROR" =>
                 err.kind = "axios" /\ err.status >= 500

\* C23: errorHandler maps an upstream error by its response status (401, 400,
\* 404, >= 500), a Zod error to VALIDATION_ERROR 400 and any other error to
\* INTERNAL_ERROR 500; for every error exactly one response is sent and its
\* status is one of 400, 401, 404, 500.
C23_ErrorMapping ==
    \A k \in 1..Len(eh) :
        LET err == eh[k].err
            res == eh[k].sent[1]
            upstream == err.kind = "axios" /\ err.status # NoResponse
        IN /\ Len(eh[k].sent) = 1
           /\ res.statusCode \in {400, 401, 404, 500}
           /\ (upstream /\ err.status = 401) =>
                 res.code = "UPSTREAM_UNAUTHORIZED" /\ res.statusCode = 401
           /\ (upstream /\ err.status = 400) =>
                 res.code = "UPSTREAM_BAD_REQUEST" /\ res.statusCode = 400
           /\ (upstream /\ err.status = 404) =>
                 res.code = "UPSTREAM_NOT_FOUND" /\ res.statusCode = 404
           /\ (upstream /\ err.status >= 500) =>
                 res.code = "UPSTREAM_SERVER_ERROR" /\ res.statusCode = 500
           /\ err.kind = "zod" =>
                 res.code = "VALIDATION_ERROR" /\ res.statusCode = 400
           /\ err.kind = "error" =>
                 res.code = "INTERNAL_ERROR" /\ res.statusCode = 500

\* an upstream 503 and an upstream 404 have been handled
C23_Witness ==
    /\ Len(eh) = 2
    /\ eh[1].err.kind = "axios" /\ eh[1].err.status = 503
    /\ eh[1].sent = <<[code |-> "UPSTREAM_SERVER_ERROR",
                       message |-> "PayKaduna API server error",
                       details |-> "upstream message", statusCode |-> 500]>>
    /\ eh[2].err.kind = "axios" /\ eh[2].err.status = 404
    /\ eh[2].sent[1].code = "UPSTREAM_NOT_FOUND"

\* ------------------------------------------- claims on createBulkBills
\* C24: createBulkBills answers 207 exactly when the upstream result has a
\* non-empty failedBillItems list and 200 otherwise; the body is the
\* upstream result; a failed database mirror changes neither.
C24_BulkStatus ==
    (bulk.pc = "answered" /\ inv[1].pc = "done") =>
        /\ bulk.result = bulk.upstream
        /\ bulk.error = NoErrorBody
        /\ bulk.status \in {200, 207}
        /\ bulk.status = 207 <=>
              /\ bulk.upstream.failedBillItems.set
              /\ bulk.upstream.failedBillItems.items # <<>>

\* the mirror failed and the upstream reported two failed items: 207
C24_Witness ==
    /\ bulk.pc = "answered"
    /\ bulk.saveThrew
    /\ bulk.upstream.failedBillItems = ListOf(<<"item2", "item3">>)
    /\ bulk.status = 207
    /\ bulk.result = bulk.upstream

\* -------------------------------------- claims on the webhook, second part
\* the signature header is the HMAC the handler computes from the body
SignatureValid ==
    /\ ExpressJson(wh.raw).ok
    /\ wh.header = Digest("sha512", "hex", conf.webhookSecretKey,
                          JsonStringify(ExpressJson(wh.raw).v))

\* bodies that parse and fail a structure check: event, data or message is
\* missing or of the wrong kind
StructureBad ==
    wh.raw \in {WebhookNoEvent, WebhookEventNumber, WebhookEventEmpty, WebhookDataArray,
                WebhookDataNull, WebhookNoMessage, WebhookArray, EmptyStr}

\* bodies that pass the structure checks, with and without a bill reference
WithReference ==
    wh.raw \in {WebhookCompact, WebhookSpaced, WebhookReordered, WebhookDecimal}

WithoutReference == wh.raw \in {WebhookNoRef, WebhookEmptyRef}

\* C28: the structure of the body is checked only after the signature check
\* has passed: with a valid signature a body whose event, data or message is
\* missing or of the wrong kind is answered 400, with no getBill call and no
\* database update; the same body with a bad signature is answered 401.
C28_StructureAfterSignature ==
    /\ (StructureBad /\ SignatureValid) =>
          /\ ~Business
          /\ Answered => wh.status = 400
    /\ (StructureBad /\ ~SignatureValid) =>
          /\ ~Business
          /\ Answered => wh.status = 401
    /\ wh.status = 400 => StructureBad /\ SignatureValid

\* an empty event with a valid signature: 400; and nothing was called
C28_Witness ==
    /\ wh.raw = WebhookEventEmpty
    /\ SignatureValid
    /\ conf.webhookSecretKey = W1
    /\ Answered
    /\ wh.status = 400
    /\ wh.message = "Invalid request: event is required and must be a string"
    /\ inv[1].calls = 0

\* C29: a webhook that has passed the signature and structure checks is
\* always answered 200 with the received event and data: a failed getBill
\* still leads to the database update from the webhook data alone, a failed
\* database update is swallowed; without a billReference neither getBill nor
\* the database update is called.
C29_AlwaysAcknowledged ==
    (SignatureValid /\ (WithReference \/ WithoutReference)) =>
        /\ wh.status \in {0, 200}
        /\ Answered =>
              /\ wh.status = 200
              /\ wh.event = "'charge.success'"
              /\ wh.data = Member(JsonParse(wh.raw).v, "'data'")
              /\ wh.data.t = "object"
        /\ WithoutReference => ~Business
        /\ (WithReference /\ Answered) =>
              /\ wh.getBill = <<"'B1'">>
              /\ Len(wh.db) = 1
              /\ wh.db[1].billReference = "'B1'"
              /\ wh.db[1].event = "'charge.success'"
        /\ (WithReference /\ wh.pc \in {"updating", "answered"} /\ inv[1].pc = "failed") =>
              /\ Len(wh.db) = 1
              /\ wh.db[1].apiBillData = "undefined"
              /\ wh.db[1].mode = "update"

\* getBill failed after all its retries, the database update threw: 200
C29_Witness ==
    /\ wh.raw = WebhookCompact
    /\ SignatureValid
    /\ Answered
    /\ wh.status = 200
    /\ inv[1].pc = "failed"
    /\ inv[1].calls = DefaultMaxRetries + 1
    /\ wh.db[1].apiBillData = "undefined"
    /\ wh.dbThrew

\* --------------------------------------------------- claims, third part
\* C26: for a DELETE request the signed payload is derived from the path and
\* the query string, as for GET, and not from the body; for every method
\* exactly one of query and body determines the signed payload.
C26_DeleteSignsQuery ==
    \A j \in {1, 2} :
        (sg.key # EmptyStr /\ sg.n[j] >= 1 /\ sg.orig[j].method = "DELETE") =>
            /\ sg.sigs[j][1].msg # EmptyStr
            /\ sg.sigs[j][1] =
                  SignatureOf(signRequest([sg.orig[j] EXCEPT !.method = "GET"],
                                          sg.key).config)

\* C27: an attempt that fails with an AxiosError whose response status is
\* below 400 is not retried: the invocation rejects with it at once, with no
\* sleep after it and no further attempt; an attempt is retried only when
\* there is no response or the status is >= 500.
C27_Below400NotRetried ==
    \A i \in Invocations :
        /\ \A n \in 1..Len(inv[i].hist) :
              LET e == inv[i].hist[n] IN
              (e.kind = "axios" /\ e.status # NoResponse /\ e.status < 400) =>
                  /\ n = Len(inv[i].hist)
                  /\ inv[i].pc = "failed"
                  /\ inv[i].rejected = <<e>>
                  /\ inv[i].calls = n
                  /\ Len(inv[i].sleeps) = n - 1
                  /\ inv[i].timer = 0
        /\ \A n \in 1..Len(inv[i].sleeps) :
              LET e == inv[i].hist[n] IN
              e.kind = "axios" => (e.status = NoResponse \/ e.status >= 500)

\* a 302 after two retried failures ends the invocation
C27_Witness ==
    /\ Len(inv[1].hist) = 3
    /\ inv[1].hist[1].status = 503
    /\ inv[1].hist[2].status = NoResponse /\ inv[1].hist[2].kind = "axios"
    /\ inv[1].hist[3].kind = "axios" /\ inv[1].hist[3].status = 302
    /\ inv[1].pc = "failed"
    /\ inv[1].sleeps = <<1000, 2000>>
    /\ inv[1].maxRetries = 5

\* C25: every retryWithBackoff invocation terminates: if every requestFn()
\* call settles and every backoff timer fires, an invocation that was called
\* resolves or rejects in the end, for every sequence of outcomes and every
\* maxRetries.
C25_Terminates ==
    \A i \in Invocations : (inv[i].pc # "idle") ~> Terminated(i)

\* an invocation with maxRetries = MaxRetriesBound has used all its attempts
C25_Witness ==
    /\ inv[1].maxRetries = MaxRetriesBound
    /\ inv[1].calls = MaxRetriesBound + 1
    /\ Len(inv[1].sleeps) = MaxRetriesBound
    /\ inv[1].pc = "failed"

\* --------------------------------------------------- claims on upsertBill
\* the calls that have committed, and the one that committed last
Committed == {c \in Calls : db.call[c].pc = "committed"}

\* the item rows of a completed call, 0 standing for the state before all calls
RowsOfCall(c) ==
    IF c = 0 THEN (IF db.bill.exists THEN InitialRows ELSE {})
    ELSE ItemRows(c, db.call[c].items)

\* C30: upsertBill replaces the items of a bill atomically: whatever calls
\* for one reference have run, overlapping or not, the stored items are the
\* item list of one completed call (the one that committed last), never a
\* union or a mixture, and a call that failed has left the bill row and the
\* items as they were.
C30_ItemsReplacedAtomically ==
    /\ Committed = {} =>
          /\ db.bill.by = 0
          /\ db.items = RowsOfCall(0)
    /\ Committed # {} =>
          /\ db.bill.exists
          /\ db.bill.by = Last(db.log)
          /\ db.bill.by \in Committed
          /\ db.items = RowsOfCall(Last(db.log))
    /\ \A c \in Calls :
          db.call[c].pc = "failed" =>
             /\ db.bill.by # c
             /\ \A r \in db.items : r.by # c

\* two calls overlapped (the second was made before the first committed),
\* both committed, a third failed: the items are the second's
C30_Witness ==
    /\ db.log = <<1, 2>>
    /\ db.call[2].after = 0
    /\ db.call[1].items = <<"r1", "r2">>
    /\ db.call[2].items = <<"r1">>
    /\ db.call[3].pc = "failed"
    /\ db.call[3].items = <<"r1", "r2">>
    /\ db.items = {[by |-> 2, pos |-> 1, revenueCode |-> "r1"]}

====
